---- MODULE Spec2Model ----
(***************************************************************************)
(* Model of tools/scan_ble.py: one run of main() (scan, write the          *)
(* discovery document, select a device, connect and walk its attribute     *)
(* tree, write the profile document), and the pure helper _to_jsonable.    *)
(*                                                                         *)
(* Text is a sequence of code points, so that str.lower(), hex(), str      *)
(* comparison and sorted() are computed and not assumed.  An Optional      *)
(* value is a sequence of length at most one; None is the empty one.       *)
(***************************************************************************)
EXTENDS Integers, Sequences, FiniteSets, TLC

\* ------------------------------------------------------------------ bounds
MaxDevices == 2
MaxServices == 2
MaxLen == 2
MaxDepth == 2

\* ------------------------------------------------------------ text helpers
None == <<>>
Some(x) == <<x>>

\* Python truthiness of an Optional[str]: None and "" are falsy.
Truthy(o) == o # None /\ o[1] # <<>>

\* Faulty variant of LowerChar: the comparison is case-sensitive.
LowerCharKeepCase(c) == c

\* str.lower() on one code point (ASCII letters).
LowerChar(c) == IF c >= 65 /\ c <= 90 THEN c + 32 ELSE c

\* str.lower()
Lower(s) == [i \in 1..Len(s) |-> LowerChar(s[i])]

\* Python's ordering of two str values (code point by code point): s < t.
RECURSIVE StrLess(_, _)
StrLess(s, t) ==
  IF s = <<>> THEN t # <<>>
  ELSE IF t = <<>> THEN FALSE
  ELSE IF Head(s) # Head(t) THEN Head(s) < Head(t)
  ELSE StrLess(Tail(s), Tail(t))

\* ------------------------------------------------- inputs of the run model
T_Sk == <<83, 107>>
T_sk == <<115, 107>>
T_S == <<83>>
T_A1 == <<65, 49>>
T_a1 == <<97, 49>>
T_B2 == <<66, 50>>
T_C3 == <<67, 51>>

\* Names a peripheral may advertise (None: no name; "": an empty name;
\* "S": a prefix of "Sk").
DeviceNames == {None, Some(<<>>), Some(T_Sk), Some(T_S)}
\* Addresses reported by the transport.
DeviceAddresses == {Some(T_A1), Some(T_B2), Some(T_C3)}
\* --device-name / --mac-address as given by the operator.
TargetNames == {None, Some(<<>>), Some(T_sk)}
TargetAddresses == {None, Some(T_a1)}

BLEDevice == [name : DeviceNames, address : DeviceAddresses]

\* What BleakScanner.discover may return: the scanner keeps one device per
\* address, so the addresses of a result are pairwise distinct.
RECURSIVE SeqsUpTo(_, _)
SeqsUpTo(S, n) ==
  IF n = 0 THEN {<<>>}
  ELSE LET shorter == SeqsUpTo(S, n - 1)
       IN shorter \cup
            {Append(q, x) : q \in {r \in shorter : Len(r) = n - 1}, x \in S}

ScanResults ==
  {ds \in SeqsUpTo(BLEDevice, MaxDevices) :
     \A i, j \in 1..Len(ds) : i # j => ds[i].address # ds[j].address}

\* ------------------------------------------------- the peripheral's tree
T_read == <<114, 101, 97, 100>>
T_write == <<119, 114, 105, 116, 101>>
T_notify == <<110, 111, 116, 105, 102, 121>>
T_2902 == <<50, 57, 48, 50>>
T_2901 == <<50, 57, 48, 49>>
T_2A19 == <<50, 65, 49, 57>>
T_2A00 == <<50, 65, 48, 48>>
T_180F == <<49, 56, 48, 70>>
T_180A == <<49, 56, 48, 65>>
T_1800 == <<49, 56, 48, 48>>

\* Attributes as the transport returns them.  handle is None where the
\* backend object has no handle attribute.  Children are deliberately not in
\* uuid order and the capability tags are not in sorted order.
Desc_2902 == [uuid |-> T_2902, handle |-> Some(12)]
Desc_2901 == [uuid |-> T_2901, handle |-> None]
Char_2A19 ==
  [uuid |-> T_2A19, handle |-> Some(11),
   properties |-> <<T_write, T_read, T_notify>>,
   descriptors |-> <<Desc_2902, Desc_2901>>]
Char_2A00 ==
  [uuid |-> T_2A00, handle |-> None,
   properties |-> <<T_read>>, descriptors |-> <<>>]
Svc_180F ==
  [uuid |-> T_180F, handle |-> Some(10),
   characteristics |-> <<Char_2A19, Char_2A00>>]
Svc_180A ==
  [uuid |-> T_180A, handle |-> None, characteristics |-> <<Char_2A00>>]
Svc_1800 ==
  [uuid |-> T_1800, handle |-> Some(1), characteristics |-> <<>>]

ServiceSet == {Svc_180F, Svc_180A, Svc_1800}
\* What client.get_services() may return.
AttributeTrees == SeqsUpTo(ServiceSet, MaxServices)

\* ------------------------------------------------------------ build_profile
\* sorted(): insertion of one str into a sorted list, after its equals.
RECURSIVE SortedInsert(_, _)
SortedInsert(x, s) ==
  IF s = <<>> THEN <<x>>
  ELSE IF StrLess(x, Head(s)) THEN <<x>> \o s
  ELSE <<Head(s)>> \o SortedInsert(x, Tail(s))

\* Faulty variant of Sorted: the tags are kept in the order received.
SortedKeepOrder(s) == s

\* sorted(list(characteristic.properties))
RECURSIVE Sorted(_)
Sorted(s) ==
  IF s = <<>> THEN <<>>
  ELSE SortedInsert(s[Len(s)], Sorted(SubSeq(s, 1, Len(s) - 1)))

\* getattr(x, "handle", None)
GetHandle(x) == x.handle

DescriptorProfile(d) == [uuid |-> d.uuid, handle |-> GetHandle(d)]

CharacteristicProfile(c) ==
  [uuid |-> c.uuid,
   handle |-> GetHandle(c),
   properties |-> Sorted(c.properties),
   descriptors |->
     [i \in 1..Len(c.descriptors) |-> DescriptorProfile(c.descriptors[i])]]

ServiceProfile(s) ==
  [uuid |-> s.uuid,
   handle |-> GetHandle(s),
   characteristics |->
     [i \in 1..Len(s.characteristics) |->
        CharacteristicProfile(s.characteristics[i])]]

\* _extract_device_info: the snapshot of the advertisement.
DeviceInfo(device) == [name |-> device.name, address |-> device.address]

\* -------------------------------------------------------------- select_device
\* One iteration of the loop body: does this device make the loop return?
SelectMatches(device, target_name, target_address) ==
  \/ /\ Truthy(target_address)
     /\ Truthy(device.address)
     /\ Lower(device.address[1]) = Lower(target_address[1])
  \/ /\ Truthy(target_name)
     /\ Truthy(device.name)
     /\ Lower(device.name[1]) = Lower(target_name[1])

\* The for loop from position i on; the result is the index of the device
\* returned, 0 for None.
RECURSIVE SelectFrom(_, _, _, _)
SelectFrom(devs, i, target_name, target_address) ==
  IF i > Len(devs) THEN 0
  ELSE IF SelectMatches(devs[i], target_name, target_address) THEN i
  ELSE SelectFrom(devs, i + 1, target_name, target_address)

select_device(devs, target_name, target_address) ==
  SelectFrom(devs, 1, target_name, target_address)

\* ------------------------------------------------- _format_key, _to_jsonable
\* Python values: kind is the type; n holds an int, t the code points of a
\* str or the bytes of a bytes object, items the items of a dict in insertion
\* order (the keys pairwise different), elems the elements of a list or tuple.
PyValue(kind, n, t, items, elems) ==
  [kind |-> kind, n |-> n, t |-> t, items |-> items, elems |-> elems]
PyBytes(b) == PyValue("bytes", 0, b, <<>>, <<>>)
PyStr(t) == PyValue("str", 0, t, <<>>, <<>>)
PyInt(n) == PyValue("int", n, <<>>, <<>>, <<>>)
PyNone == PyValue("none", 0, <<>>, <<>>, <<>>)
PyDict(items) == PyValue("dict", 0, <<>>, items, <<>>)
PyList(xs) == PyValue("list", 0, <<>>, <<>>, xs)
PyTuple(xs) == PyValue("tuple", 0, <<>>, <<>>, xs)
Item(k, x) == [k |-> k, val |-> x]

\* One lowercase hexadecimal digit as a code point.
HexDigit(d) == IF d < 10 THEN 48 + d ELSE 87 + d

\* The digits of hex(n) after the prefix, n >= 0.
RECURSIVE HexDigits(_)
HexDigits(n) ==
  IF n < 16 THEN <<HexDigit(n)>>
  ELSE Append(HexDigits(n \div 16), HexDigit(n % 16))

\* hex(n)
Hex(n) ==
  IF n < 0 THEN <<45, 48, 120>> \o HexDigits(0 - n)
  ELSE <<48, 120>> \o HexDigits(n)

\* bytes.hex()
RECURSIVE BytesHex(_)
BytesHex(b) ==
  IF b = <<>> THEN <<>>
  ELSE <<HexDigit(Head(b) \div 16), HexDigit(Head(b) % 16)>>
         \o BytesHex(Tail(b))

\* _format_key: hex(key) for an int, str(key) otherwise.
format_key(key) == IF key.kind = "int" THEN Hex(key.n) ELSE key.t

\* d[k] = x on a dict under construction: a key already present keeps its
\* place and takes the new value.
DictSet(items, k, x) ==
  IF \E i \in 1..Len(items) : items[i].k = k
    THEN [i \in 1..Len(items) |->
            IF items[i].k = k THEN Item(k, x) ELSE items[i]]
    ELSE Append(items, Item(k, x))

\* {_format_key(k): v for k, v in items}, the values already converted.
RECURSIVE DictComprehension(_)
DictComprehension(items) ==
  IF items = <<>> THEN <<>>
  ELSE LET last == items[Len(items)]
       IN DictSet(DictComprehension(SubSeq(items, 1, Len(items) - 1)),
                  format_key(last.k), last.val)

RECURSIVE to_jsonable(_)
to_jsonable(value) ==
  IF value.kind = "bytes" THEN PyStr(BytesHex(value.t))
  ELSE IF value.kind = "dict" THEN
    PyDict(DictComprehension(
      [i \in 1..Len(value.items) |->
         Item(value.items[i].k, to_jsonable(value.items[i].val))]))
  ELSE IF value.kind \in {"list", "tuple"} THEN
    PyList([i \in 1..Len(value.elems) |-> to_jsonable(value.elems[i])])
  ELSE value

\* Inputs of the normalizer model.
T_0xff == <<48, 120, 102, 102>>
T_k == <<107>>
Atoms == {PyBytes(<<222, 173>>), PyBytes(<<10>>), PyStr(T_k), PyInt(7)}
Keys == {PyInt(255), PyStr(T_0xff)}

DictsOver(V) ==
  {PyDict(items) : items \in
     {q \in SeqsUpTo([k : Keys, val : V], MaxLen) :
        \A i, j \in 1..Len(q) : i # j => q[i].k # q[j].k}}

RECURSIVE Values(_)
Values(depth) ==
  IF depth = 0 THEN Atoms
  ELSE LET V == Values(depth - 1)
       IN V \cup DictsOver(V)
            \cup {PyList(xs) : xs \in SeqsUpTo(V, MaxLen)}
            \cup {PyTuple(xs) : xs \in SeqsUpTo(Atoms, 1)}

\* ------------------------------------------------------------------ files
\* A file on disk: absent, its contents from before this run ("previous"),
\* opened for writing and cut short ("truncated": empty or a prefix of a
\* document), or a complete JSON document of this run.
NoFile == [kind |-> "absent", doc |-> <<>>]
PreviousFile == [kind |-> "previous", doc |-> <<>>]
TruncatedFile == [kind |-> "truncated", doc |-> <<>>]
DocumentFile(payload) == [kind |-> "document", doc |-> <<payload>>]

\* Where a write (mkdir, open("w"), json.dump) can raise or be interrupted.
WriteFailPoints == {"mkdir", "open", "dump"}

\* output_path.parent.mkdir(parents=True, exist_ok=True)
ParentAfter(parent, point) == IF point = "mkdir" THEN parent ELSE TRUE

\* The file after a write that raised at the given point: open("w") has
\* already cut the file to length 0 when json.dump starts.
FileAfterFailedWrite(file, point) ==
  IF point = "dump" THEN TruncatedFile ELSE file

\* Faulty variant of ScanPayload: device_count counts only the named devices.
ScanPayloadCountNamed(devs) ==
  [device_count |-> Cardinality({i \in 1..Len(devs) : devs[i].name # None}),
   devices |-> [i \in 1..Len(devs) |-> DeviceInfo(devs[i])]]

\* payload of write_scan_results
ScanPayload(devs) ==
  [device_count |-> Len(devs),
   devices |-> [i \in 1..Len(devs) |-> DeviceInfo(devs[i])]]

\* asdict(profile) of write_profile
ProfilePayload(device, service_profiles) ==
  [device |-> DeviceInfo(device), services |-> service_profiles]

\* ------------------------------------------------------------- exceptions
Errors == {"BleakError", "Exception", "KeyboardInterrupt"}
ScanErrors == {"AdapterUnavailable", "ScanFailed", "Cancelled"}

\* What main() reports for an exception that left build_profile: except
\* BleakError -> SystemExit (line 271), KeyboardInterrupt -> SystemExit
\* "Scan cancelled by user." (line 447), anything else re-raised (line 456).
Reported(stage, err) ==
  IF err = "KeyboardInterrupt" THEN "Cancelled" ELSE stage

\* Faulty variant of HasTarget: the options are tested against None, not for truth.
HasTargetNotNone(name, address) == name # None \/ address # None

\* not (not args.device_name and not args.mac_address), line 424
HasTarget(name, address) == Truthy(name) \/ Truthy(address)

\* Faulty variant of OpenAfterExit: the client is disconnected only when the body
\* ends without an exception.
OpenAfterExitOnSuccess(open, err) == IF err = "none" THEN open - 1 ELSE open

\* Connections open after BleakClient.__aexit__: it disconnects whether or
\* not the body raised.
OpenAfterExit(open, err) == open - 1

\* Faulty variant of AfterBuildProfile: the exception is swallowed and whatever was
\* built is returned.
AfterBuildProfileSwallow(err) == "write_profile"

\* Where async_main continues once the async with block is left: line 437
\* after return profile, or out of the run when an exception propagates.
AfterBuildProfile(err) == IF err = "none" THEN "write_profile" ELSE "exit"

\* ------------------------------------------------------------------ state
VARIABLES
  pc,              \* position of the run in async_main / build_profile
  device_name,     \* args.device_name
  mac_address,     \* args.mac_address
  devices,         \* result of scan_devices
  target_device,   \* index in devices of select_device's result, 0 for None
  conn,            \* number of connections currently open
  services,        \* result of client.get_services()
  idx,             \* next service of the for loop at line 248
  profile,         \* profile.services built so far
  pending,         \* exception leaving the async with body, or "none"
  outcome,         \* how the run ended; "running" until then
  scan_file,       \* the file at args.scan_output
  scan_parent,     \* args.scan_output.parent exists
  profile_file,    \* the file at args.profile_output
  profile_parent,  \* args.profile_output.parent exists
  select_calls,    \* calls of select_device so far
  conn_opens,      \* connections opened so far
  profile_writes,  \* calls of write_profile so far
  value,           \* argument of _to_jsonable
  jsonable,        \* its result
  norm_pc          \* "idle", "call" or "return"

vars ==
  <<pc, device_name, mac_address, devices, target_device, conn, services, idx,
    profile, pending, outcome, scan_file, scan_parent, profile_file,
    profile_parent, select_calls, conn_opens, profile_writes, value, jsonable,
    norm_pc>>

argvars == <<device_name, mac_address>>
buildvars == <<services, idx, profile, pending>>
scanfilevars == <<scan_file, scan_parent>>
profilefilevars == <<profile_file, profile_parent>>
countvars == <<select_calls, conn_opens, profile_writes>>
normvars == <<value, jsonable, norm_pc>>
runvars ==
  <<pc, device_name, mac_address, devices, target_device, conn, services, idx,
    profile, pending, outcome, scan_file, scan_parent, profile_file,
    profile_parent, select_calls, conn_opens, profile_writes>>

Init ==
  /\ pc = "scan"
  /\ device_name \in TargetNames
  /\ mac_address \in TargetAddresses
  /\ devices = <<>>
  /\ target_device = 0
  /\ conn = 0
  /\ services = <<>>
  /\ idx = 1
  /\ profile = <<>>
  /\ pending = "none"
  /\ outcome = "running"
  /\ \E old \in BOOLEAN :
       /\ scan_parent = old
       /\ scan_file = IF old THEN PreviousFile ELSE NoFile
  /\ \E old \in BOOLEAN :
       /\ profile_parent = old
       /\ profile_file = IF old THEN PreviousFile ELSE NoFile
  /\ select_calls = 0
  /\ conn_opens = 0
  /\ profile_writes = 0
  /\ value = PyNone
  /\ jsonable = PyNone
  /\ norm_pc = "idle"

\* ---------------------------------------------------------------- actions
\* scan_devices returns (line 421).
Scan ==
  /\ pc = "scan"
  /\ \E ds \in ScanResults : devices' = ds
  /\ pc' = "write_scan"
  /\ UNCHANGED <<argvars, target_device, conn, buildvars, outcome,
                 scanfilevars, profilefilevars, countvars, normvars>>

\* scan_devices raises SystemExit or a transport error, or is interrupted.
ScanFail ==
  /\ pc = "scan"
  /\ \E e \in ScanErrors : outcome' = e
  /\ pc' = "exit"
  /\ UNCHANGED <<argvars, devices, target_device, conn, buildvars,
                 scanfilevars, profilefilevars, countvars, normvars>>

\* write_scan_results runs to its end (line 422, lines 348-358).
WriteScanResults ==
  /\ pc = "write_scan"
  /\ scan_parent' = TRUE
  /\ scan_file' = DocumentFile(ScanPayload(devices))
  /\ pc' = "check_target"
  /\ UNCHANGED <<argvars, devices, target_device, conn, buildvars, outcome,
                 profilefilevars, countvars, normvars>>

\* write_scan_results raises at mkdir, at open or inside json.dump.
WriteScanResultsFail ==
  /\ pc = "write_scan"
  /\ \E point \in WriteFailPoints :
       /\ scan_parent' = ParentAfter(scan_parent, point)
       /\ scan_file' = FileAfterFailedWrite(scan_file, point)
  /\ pc' = "exit"
  /\ outcome' = "WriteFailed"
  /\ UNCHANGED <<argvars, devices, target_device, conn, buildvars,
                 profilefilevars, countvars, normvars>>

\* No target given: lines 424-426.
NoTarget ==
  /\ pc = "check_target"
  /\ ~HasTarget(device_name, mac_address)
  /\ pc' = "exit"
  /\ outcome' = "ok"
  /\ UNCHANGED <<argvars, devices, target_device, conn, buildvars,
                 scanfilevars, profilefilevars, countvars, normvars>>

\* select_device and the test of its result: lines 428-434.
SelectDevice ==
  /\ pc = "check_target"
  /\ HasTarget(device_name, mac_address)
  /\ select_calls' = select_calls + 1
  /\ target_device' = select_device(devices, device_name, mac_address)
  /\ IF target_device' = 0
       THEN pc' = "exit" /\ outcome' = "NotFound"
       ELSE pc' = "connect" /\ outcome' = outcome
  /\ UNCHANGED <<argvars, devices, conn, buildvars, scanfilevars,
                 profilefilevars, conn_opens, profile_writes, normvars>>

\* BleakClient.__aenter__ connects (line 241).
Connect ==
  /\ pc = "connect"
  /\ conn' = conn + 1
  /\ conn_opens' = conn_opens + 1
  /\ pc' = "get_services"
  /\ UNCHANGED <<argvars, devices, target_device, buildvars, outcome,
                 scanfilevars, profilefilevars, select_calls, profile_writes,
                 normvars>>

\* The connection attempt is rejected, times out or is interrupted: the
\* async with body is never entered and no connection is open.
ConnectFail ==
  /\ pc = "connect"
  /\ \E e \in Errors : outcome' = Reported("ConnectionFailed", e)
  /\ pc' = "exit"
  /\ UNCHANGED <<argvars, devices, target_device, conn, buildvars,
                 scanfilevars, profilefilevars, countvars, normvars>>

\* client.get_services() returns the tree (lines 243-246).
GetServices ==
  /\ pc = "get_services"
  /\ \E tree \in AttributeTrees :
       /\ services' = tree
       /\ pc' = IF tree = <<>> THEN "aexit" ELSE "walk"
  /\ idx' = 1
  /\ profile' = <<>>
  /\ UNCHANGED <<argvars, devices, target_device, conn, pending, outcome,
                 scanfilevars, profilefilevars, countvars, normvars>>

\* client.get_services() raises.
GetServicesFail ==
  /\ pc = "get_services"
  /\ \E e \in Errors : pending' = e
  /\ pc' = "aexit"
  /\ UNCHANGED <<argvars, devices, target_device, conn, services, idx,
                 profile, outcome, scanfilevars, profilefilevars, countvars,
                 normvars>>

\* One iteration of the loop over services (lines 248-269).
WalkService ==
  /\ pc = "walk"
  /\ idx <= Len(services)
  /\ profile' = Append(profile, ServiceProfile(services[idx]))
  /\ idx' = idx + 1
  /\ pc' = IF idx = Len(services) THEN "aexit" ELSE "walk"
  /\ UNCHANGED <<argvars, devices, target_device, conn, services, pending,
                 outcome, scanfilevars, profilefilevars, countvars, normvars>>

\* The peripheral fails while service idx is read: idx - 1 of the services
\* are in the profile.
WalkFail ==
  /\ pc = "walk"
  /\ \E e \in Errors : pending' = e
  /\ pc' = "aexit"
  /\ UNCHANGED <<argvars, devices, target_device, conn, services, idx,
                 profile, outcome, scanfilevars, profilefilevars, countvars,
                 normvars>>

\* BleakClient.__aexit__ disconnects; then the body's exception, if any,
\* goes on to lines 270-271 and to main(), else line 273 returns the profile.
CloseConnection ==
  /\ pc = "aexit"
  /\ conn' = OpenAfterExit(conn, pending)
  /\ pc' = AfterBuildProfile(pending)
  /\ IF pc' = "write_profile"
       THEN UNCHANGED <<profile, outcome>>
       ELSE /\ outcome' = Reported("EnumerationFailed", pending)
            /\ profile' = <<>>
  /\ UNCHANGED <<argvars, devices, target_device, services, idx, pending,
                 scanfilevars, profilefilevars, countvars, normvars>>

\* write_profile runs to its end (line 437, lines 276-280).
WriteProfile ==
  /\ pc = "write_profile"
  /\ profile_writes' = profile_writes + 1
  /\ profile_parent' = TRUE
  /\ profile_file' =
       DocumentFile(ProfilePayload(devices[target_device], profile))
  /\ pc' = "exit"
  /\ outcome' = "ok"
  /\ UNCHANGED <<argvars, devices, target_device, conn, buildvars,
                 scanfilevars, select_calls, conn_opens, normvars>>

\* write_profile raises at mkdir, at open or inside json.dump.
WriteProfileFail ==
  /\ pc = "write_profile"
  /\ profile_writes' = profile_writes + 1
  /\ \E point \in WriteFailPoints :
       /\ profile_parent' = ParentAfter(profile_parent, point)
       /\ profile_file' = FileAfterFailedWrite(profile_file, point)
  /\ pc' = "exit"
  /\ outcome' = "WriteFailed"
  /\ UNCHANGED <<argvars, devices, target_device, conn, buildvars,
                 scanfilevars, select_calls, conn_opens, normvars>>

Next ==
  \/ Scan
  \/ ScanFail
  \/ WriteScanResults
  \/ WriteScanResultsFail
  \/ NoTarget
  \/ SelectDevice
  \/ Connect
  \/ ConnectFail
  \/ GetServices
  \/ GetServicesFail
  \/ WalkService
  \/ WalkFail
  \/ CloseConnection
  \/ WriteProfile
  \/ WriteProfileFail

Spec == Init /\ [][Next]_vars

TypeOK ==
  /\ pc \in {"scan", "write_scan", "check_target", "connect", "get_services",
             "walk", "aexit", "write_profile", "exit"}
  /\ conn \in 0..1
  /\ target_device \in 0..Len(devices)

\* ============================================================ properties
\* Words of the claims, stated without the operators of the model.
Supplied(option) == option # None /\ option[1] # <<>>

IsLetter(c) == (c >= 65 /\ c <= 90) \/ (c >= 97 /\ c <= 122)

SameLetter(a, b) ==
  \/ a = b
  \/ IsLetter(a) /\ IsLetter(b) /\ (a - b = 32 \/ b - a = 32)

EqualIgnoringCase(s, t) ==
  Len(s) = Len(t) /\ \A i \in 1..Len(s) : SameLetter(s[i], t[i])

Least(S) == CHOOSE i \in S : \A j \in S : i <= j

\* Index of the first device whose address equals the target address
\* case-insensitively; 0 when there is none.
FirstAddressMatch(devs, target_address) ==
  LET M == {i \in 1..Len(devs) :
              /\ devs[i].address # None
              /\ EqualIgnoringCase(devs[i].address[1], target_address[1])}
  IN IF M = {} THEN 0 ELSE Least(M)

\* Index of the first device that has a name equal to the target name
\* case-insensitively; 0 when there is none.
FirstNameMatch(devs, target_name) ==
  LET M == {i \in 1..Len(devs) :
              /\ devs[i].name # None
              /\ EqualIgnoringCase(devs[i].name[1], target_name[1])}
  IN IF M = {} THEN 0 ELSE Least(M)

\* The profile output path is as it was when the run started.
ProfileUntouched ==
  /\ profile_file \in {NoFile, PreviousFile}
  /\ profile_parent <=> (profile_file = PreviousFile)

\* The run left scan_devices with a result.
ScanReturned ==
  /\ pc # "scan"
  /\ outcome \notin {"AdapterUnavailable", "ScanFailed"}
  /\ ~(outcome = "Cancelled" /\ select_calls = 0)

\* C1: whenever select_device has been called with a target address, its
\* result is the first device whose address equals that address
\* case-insensitively, and None when no device has it, whatever the target
\* name is.  (The loop also returns on a name match, so this fails.)
C1_AddressOnly ==
  (select_calls > 0 /\ Supplied(mac_address)) =>
    target_device = FirstAddressMatch(devices, mac_address)

\* C2: at most one connection is ever open, and none is open once
\* build_profile has handed its outcome to the caller: not while the profile
\* is written, and not when the run has ended, whichever way it ended.
C2_ConnectionClosed ==
  /\ conn \in {0, 1}
  /\ conn_opens <= 1
  /\ pc \in {"write_profile", "exit"} => conn = 0

\* C2 witness: a run that opened a connection and was interrupted during the
\* enumeration has ended with the connection closed.
C2_Witness ==
  /\ pc = "exit"
  /\ conn_opens = 1
  /\ pending = "KeyboardInterrupt"
  /\ outcome = "Cancelled"
  /\ conn = 0

\* C3: the profile writer is invoked only after a walk that covered every
\* service of the tree without an exception; a run whose connection attempt
\* or enumeration failed ends in a failure outcome with the partial profile
\* dropped, write_profile never called and the profile path untouched.
C3_AllOrNothing ==
  /\ (pc = "write_profile" \/ profile_writes > 0
        \/ profile_file.kind \in {"truncated", "document"}) =>
       /\ conn_opens = 1
       /\ pending = "none"
       /\ idx = Len(services) + 1
       /\ Len(profile) = Len(services)
  /\ (pc = "exit" /\ target_device # 0
        /\ (pending # "none" \/ conn_opens = 0)) =>
       /\ outcome \in {"ConnectionFailed", "EnumerationFailed", "Cancelled"}
       /\ profile = <<>>
       /\ profile_writes = 0
       /\ ProfileUntouched

\* C3 witness: the peripheral failed after yielding one of two services.
C3_Witness ==
  /\ pc = "exit"
  /\ outcome = "EnumerationFailed"
  /\ pending = "BleakError"
  /\ Len(services) = 2
  /\ idx = 2
  /\ profile_writes = 0

\* C4: with a target name and no target address, select_device returns the
\* first device that has a name equal to the target name case-insensitively,
\* and None exactly when there is none; after None the run ends as NotFound
\* with no connection opened and no profile written.
C4_NameOnly ==
  /\ (select_calls > 0 /\ ~Supplied(mac_address)) =>
       /\ Supplied(device_name)
       /\ target_device = FirstNameMatch(devices, device_name)
  /\ (select_calls > 0 /\ target_device = 0) <=> outcome = "NotFound"
  /\ outcome = "NotFound" =>
       /\ pc = "exit"
       /\ conn_opens = 0
       /\ profile_writes = 0
       /\ ProfileUntouched

\* C4 witness: target "sk"; the first device is named "S" (a prefix), the
\* second "Sk": the second is selected.
C4_Witness ==
  /\ select_calls = 1
  /\ mac_address = None
  /\ device_name = Some(T_sk)
  /\ Len(devices) = 2
  /\ devices[1].name = Some(T_S)
  /\ devices[2].name = Some(T_Sk)
  /\ target_device = 2

C6_AtomicWrite ==
  \A f \in {scan_file, profile_file} :
    f.kind \in {"absent", "previous", "document"}

\* Python's str ordering, stated on positions: s sorts before t.
LexLess(s, t) ==
  \E i \in 1..(Len(s) + 1) :
    /\ i <= Len(t)
    /\ \A j \in 1..(i - 1) : s[j] = t[j]
    /\ i = Len(s) + 1 \/ s[i] < t[i]

Occurrences(x, s) == Cardinality({i \in 1..Len(s) : s[i] = x})

SortedRearrangement(out, in) ==
  /\ Len(out) = Len(in)
  /\ \A i \in 1..Len(in) : Occurrences(in[i], out) = Occurrences(in[i], in)
  /\ \A i, j \in 1..Len(out) : i < j => ~LexLess(out[j], out[i])

DescriptorMirrors(p, d) == p.uuid = d.uuid /\ p.handle = d.handle

CharacteristicMirrors(p, c) ==
  /\ p.uuid = c.uuid
  /\ p.handle = c.handle
  /\ SortedRearrangement(p.properties, c.properties)
  /\ Len(p.descriptors) = Len(c.descriptors)
  /\ \A k \in 1..Len(c.descriptors) :
       DescriptorMirrors(p.descriptors[k], c.descriptors[k])

ServiceMirrors(p, sv) ==
  /\ p.uuid = sv.uuid
  /\ p.handle = sv.handle
  /\ Len(p.characteristics) = Len(sv.characteristics)
  /\ \A j \in 1..Len(sv.characteristics) :
       CharacteristicMirrors(p.characteristics[j], sv.characteristics[j])

TreeMirrors(ps, tree) ==
  /\ Len(ps) = Len(tree)
  /\ \A i \in 1..Len(tree) : ServiceMirrors(ps[i], tree[i])

\* C9: the profile a successful build_profile returns, and the document
\* written from it, has the services, characteristics and descriptors of the
\* tree, each under its parent at the position the peripheral gave it, with
\* the handle as given (None where there is none), and each property list the
\* sorted rearrangement of the characteristic's capability tags.
C9_ProfileMirrorsTree ==
  /\ pc = "write_profile" => TreeMirrors(profile, services)
  /\ profile_file.kind = "document" =>
       /\ TreeMirrors(profile_file.doc[1].services, services)
       /\ profile_file.doc[1].device.address = devices[target_device].address

\* C9 witness: a profile document written for a tree of two services, the
\* first with two characteristics, unsorted tags and two descriptors.
C9_Witness ==
  /\ profile_file.kind = "document"
  /\ services = <<Svc_180F, Svc_180A>>

\* C10: once select_device has been called or a connection opened, and so in
\* every run that ended NotFound, ConnectionFailed or EnumerationFailed, the
\* discovery document of this run's scan is on disk, lists the devices of the
\* scan in order, and its device_count is the length of its devices list.
C10_DiscoveryWrittenFirst ==
  (\/ select_calls > 0
   \/ conn_opens > 0
   \/ outcome \in {"NotFound", "ConnectionFailed", "EnumerationFailed"}) =>
    /\ scan_parent
    /\ scan_file.kind = "document"
    /\ LET d == scan_file.doc[1]
       IN /\ d.device_count = Len(d.devices)
          /\ Len(d.devices) = Len(devices)
          /\ \A i \in 1..Len(devices) :
               /\ d.devices[i].address = devices[i].address
               /\ d.devices[i].name = devices[i].name

\* C10 witness: a run that ended NotFound after a scan that saw two devices,
\* one of them without a name.
C10_Witness ==
  /\ pc = "exit"
  /\ outcome = "NotFound"
  /\ Len(devices) = 2
  /\ devices[1].name = None
  /\ scan_file.kind = "document"

\* ------------------------------------------- the normalizer on its own
\* _to_jsonable applied to one value; no run of main() is in progress.
InitNorm ==
  /\ pc = "exit"
  /\ device_name = None
  /\ mac_address = None
  /\ devices = <<>>
  /\ target_device = 0
  /\ conn = 0
  /\ services = <<>>
  /\ idx = 1
  /\ profile = <<>>
  /\ pending = "none"
  /\ outcome = "running"
  /\ scan_file = NoFile
  /\ scan_parent = FALSE
  /\ profile_file = NoFile
  /\ profile_parent = FALSE
  /\ select_calls = 0
  /\ conn_opens = 0
  /\ profile_writes = 0
  /\ value \in Values(MaxDepth)
  /\ jsonable = PyNone
  /\ norm_pc = "call"

ToJsonable ==
  /\ norm_pc = "call"
  /\ jsonable' = to_jsonable(value)
  /\ norm_pc' = "return"
  /\ UNCHANGED <<runvars, value>>

NextNorm == ToJsonable

SpecNorm == InitNorm /\ [][NextNorm]_vars

\* ------------------------------------------------ properties of _to_jsonable
IsHexDigit(c) == (c >= 48 /\ c <= 57) \/ (c >= 97 /\ c <= 102)

DigitValue(c) == IF c <= 57 THEN c - 48 ELSE c - 87

\* The number a string of hexadecimal digits denotes.
RECURSIVE ParseHex(_)
ParseHex(t) ==
  IF t = <<>> THEN 0
  ELSE 16 * ParseHex(SubSeq(t, 1, Len(t) - 1)) + DigitValue(t[Len(t)])

\* t is the lowercase hexadecimal form of the bytes b, two digits a byte.
HexOf(t, b) ==
  /\ Len(t) = 2 * Len(b)
  /\ \A i \in 1..Len(t) : IsHexDigit(t[i])
  /\ \A i \in 1..Len(b) : ParseHex(SubSeq(t, 2 * i - 1, 2 * i)) = b[i]

\* t is the canonical string form of the key k.
CanonicalKey(t, k) ==
  IF k.kind = "str" THEN t = k.t
  ELSE /\ Len(t) > 2
       /\ SubSeq(t, 1, 2) = <<48, 120>>
       /\ \A i \in 3..Len(t) : IsHexDigit(t[i])
       /\ ParseHex(SubSeq(t, 3, Len(t))) = k.n

\* out is the normal form of in, as the claim describes it.
RECURSIVE Normal(_, _)
Normal(out, in) ==
  IF in.kind = "bytes" THEN out.kind = "str" /\ HexOf(out.t, in.t)
  ELSE IF in.kind = "dict" THEN
    /\ out.kind = "dict"
    /\ Len(out.items) = Len(in.items)
    /\ \A i \in 1..Len(in.items) :
         /\ i <= Len(out.items)
         /\ CanonicalKey(out.items[i].k, in.items[i].k)
         /\ Normal(out.items[i].val, in.items[i].val)
  ELSE IF in.kind \in {"list", "tuple"} THEN
    /\ out.kind = "list"
    /\ Len(out.elems) = Len(in.elems)
    /\ \A i \in 1..Len(in.elems) : Normal(out.elems[i], in.elems[i])
  ELSE out = in

\* No two keys of a dict inside the value have the same _format_key.
RECURSIVE KeysStayApart(_)
KeysStayApart(in) ==
  /\ \A i, j \in 1..Len(in.items) :
       i # j => format_key(in.items[i].k) # format_key(in.items[j].k)
  /\ \A i \in 1..Len(in.items) : KeysStayApart(in.items[i].val)
  /\ \A i \in 1..Len(in.elems) : KeysStayApart(in.elems[i])

\* C8: _to_jsonable returns the normal form of its argument: the hexadecimal
\* string of a byte sequence, a scalar unchanged, for a mapping one output
\* key per input key (its canonical string form) with the value normalized,
\* for any other collection the list of the normalized elements in order.
\* (Two keys with one canonical form, 255 and "0xff", become one key, so this
\* fails.)
C8_Normalize == norm_pc = "return" => Normal(jsonable, value)

\* C8, what holds: the same for every value in which no two keys of one
\* mapping share a canonical form.
C8_NormalizeKeysApart ==
  (norm_pc = "return" /\ KeysStayApart(value)) => Normal(jsonable, value)

====
